---- MODULE Spec2Model ----
(***************************************************************************)
(* A model of src/covid_data.py: the class CovidData, its constructor      *)
(* (dataset load, route-file check, fallback fetch, CSV read) and its two  *)
(* public operations routesToWeightedEdges and getData.                    *)
(*                                                                         *)
(* A pandas DataFrame is a record [cols, rows]: cols is the sequence of    *)
(* column labels in column order, rows the sequence of rows in row order,  *)
(* each row a function from the column labels to cell values.  Location    *)
(* cells are strings (NaN is the missing value), Lat/Long cells are exact  *)
(* rationals <<numerator, denominator>> in lowest terms, date cells are    *)
(* natural numbers.  The numeric columns of the source tables hold no      *)
(* missing values.                                                         *)
(***************************************************************************)
EXTENDS Integers, Sequences, FiniteSets, TLC

VARIABLES env, pc, fileExists, fetchRuns, log,
          confirmed_df, deaths_df, recovered_df, routes_df, ret, calls

vars == <<env, pc, fileExists, fetchRuns, log,
          confirmed_df, deaths_df, recovered_df, routes_df, ret, calls>>

(***************************************************************************)
(* Bounds of the model.                                                    *)
(***************************************************************************)
MaxRows == 3
MaxRoutes == 3
\* The count of calls made on an instance stops rising here (the calls go on).
MaxCalls == 2

(***************************************************************************)
(* Values.                                                                 *)
(***************************************************************************)
None == "None"
NaN == "NaN"
NoneValue == [none |-> TRUE]
Unset == [unset |-> TRUE]

LocationColumns == {"County", "Province/State", "Country/Region"}

RouteColumns == <<"DepartCounty", "DepartProvince/State", "DepartCountry/Region",
                  "ArrivalCounty", "ArrivalProvince/State", "ArrivalCountry/Region">>

DateColumns == <<"1/22/20", "1/23/20", "1/24/20">>

CaseColumns == <<"County", "Province/State", "Country/Region", "Lat", "Long">> \o DateColumns

Range(s) == {s[i] : i \in 1..Len(s)}

\* The order Python gives the strings that occur as labels (code-point order).
NameOrder == <<"A", "B", "CA", "FR", "US", "X", "Y", "none">>

NameRank(s) == CHOOSE i \in 1..Len(NameOrder) : NameOrder[i] = s

(***************************************************************************)
(* Exact rational arithmetic for the Lat/Long means.                       *)
(***************************************************************************)
RECURSIVE GCD(_, _)
GCD(a, b) == IF b = 0 THEN a ELSE GCD(b, a % b)

Reduce(q) == IF q[1] = 0 THEN <<0, 1>>
             ELSE LET g == GCD(q[1], q[2]) IN <<q[1] \div g, q[2] \div g>>

RatAdd(p, q) == Reduce(<<p[1] * q[2] + q[1] * p[2], p[2] * q[2]>>)

RatDiv(p, n) == Reduce(<<p[1], p[2] * n>>)

(***************************************************************************)
(* DataFrame primitives.                                                   *)
(***************************************************************************)
\* DataFrame.fillna("none"): every missing cell becomes the string "none".
Fillna(df) ==
    [cols |-> df.cols,
     rows |-> [i \in 1..Len(df.rows) |->
                 [c \in DOMAIN df.rows[i] |->
                    IF c \in LocationColumns \cup Range(RouteColumns)
                    THEN (IF df.rows[i][c] = NaN THEN "none" ELSE df.rows[i][c])
                    ELSE df.rows[i][c]]]]

\* The rows a boolean mask keeps, in their order.
RECURSIVE Keep(_, _)
Keep(rows, mask) ==
    IF Len(rows) = 0 THEN <<>>
    ELSE (IF mask[1] THEN <<rows[1]>> ELSE <<>>) \o Keep(Tail(rows), Tail(mask))

\* df.loc[mask], the mask a boolean per row.
Loc(df, mask) == [cols |-> df.cols, rows |-> Keep(df.rows, mask)]

KeyOf(row, keys) == [i \in 1..Len(keys) |-> row[keys[i]]]

RECURSIVE KeyLess(_, _)
KeyLess(k1, k2) ==
    IF Len(k1) = 0 THEN FALSE
    ELSE IF k1[1] # k2[1] THEN NameRank(k1[1]) < NameRank(k2[1])
    ELSE KeyLess(Tail(k1), Tail(k2))

\* The group keys of a groupby (sort=True): distinct, in ascending order.
RECURSIVE SortedKeys(_)
SortedKeys(S) ==
    IF S = {} THEN <<>>
    ELSE LET m == CHOOSE k \in S : \A o \in S \ {k} : KeyLess(k, o)
         IN <<m>> \o SortedKeys(S \ {m})

GroupRows(df, keys, k) == SelectSeq(df.rows, LAMBDA r : KeyOf(r, keys) = k)

RECURSIVE SumInt(_, _)
SumInt(rows, col) ==
    IF Len(rows) = 0 THEN 0 ELSE rows[1][col] + SumInt(Tail(rows), col)

RECURSIVE SumRat(_, _)
SumRat(rows, col) ==
    IF Len(rows) = 0 THEN <<0, 1>> ELSE RatAdd(rows[1][col], SumRat(Tail(rows), col))

Mean(rows, col) == RatDiv(SumRat(rows, col), Len(rows))

(***************************************************************************)
(* routesToWeightedEdges(bin_region_column, country), lines 59-82.         *)
(***************************************************************************)
RouteKeys(bin_region_column) ==
    CASE bin_region_column = "county" -> RouteColumns
      [] bin_region_column = "state" ->
            <<"DepartProvince/State", "DepartCountry/Region",
              "ArrivalProvince/State", "ArrivalCountry/Region">>
      [] bin_region_column = "country" ->
            <<"DepartCountry/Region", "ArrivalCountry/Region">>
      [] OTHER -> <<>>

\* NewRoutes with the mask keeping a route that has either end in the country.
NewRoutesEitherEnd(routes, country) ==
    LET filled == Fillna(routes)
        masked == IF country # None
                  THEN Loc(filled, [i \in 1..Len(filled.rows) |->
                                      \/ filled.rows[i]["DepartCountry/Region"] = country
                                      \/ filled.rows[i]["ArrivalCountry/Region"] = country])
                  ELSE filled
    IN [cols |-> masked.cols \o <<"NumberOfRoutes">>,
        rows |-> [i \in 1..Len(masked.rows) |->
                    [c \in DOMAIN masked.rows[i] \cup {"NumberOfRoutes"} |->
                       IF c = "NumberOfRoutes" THEN 1 ELSE masked.rows[i][c]]]]

\* new_routes_df after lines 59-64: copy, fillna, country mask, the counter column.
NewRoutes(routes, country) ==
    LET filled == Fillna(routes)
        masked == IF country # None
                  THEN Loc(filled, [i \in 1..Len(filled.rows) |->
                                      /\ filled.rows[i]["DepartCountry/Region"] = country
                                      /\ filled.rows[i]["ArrivalCountry/Region"] = country])
                  ELSE filled
    IN [cols |-> masked.cols \o <<"NumberOfRoutes">>,
        rows |-> [i \in 1..Len(masked.rows) |->
                    [c \in DOMAIN masked.rows[i] \cup {"NumberOfRoutes"} |->
                       IF c = "NumberOfRoutes" THEN 1 ELSE masked.rows[i][c]]]]

\* groupby(keys)['NumberOfRoutes'].sum().reset_index()
GroupRoutes(df, keys) ==
    LET ks == SortedKeys({KeyOf(df.rows[i], keys) : i \in 1..Len(df.rows)})
    IN [cols |-> keys \o <<"NumberOfRoutes">>,
        rows |-> [j \in 1..Len(ks) |->
                    [c \in Range(keys) \cup {"NumberOfRoutes"} |->
                       IF c = "NumberOfRoutes"
                       THEN SumInt(GroupRows(df, keys, ks[j]), "NumberOfRoutes")
                       ELSE LET i == CHOOSE n \in 1..Len(keys) : keys[n] = c
                            IN ks[j][i]]]]

routesToWeightedEdges(routes, bin_region_column, country) ==
    IF bin_region_column \in {"county", "state", "country"}
    THEN GroupRoutes(NewRoutes(routes, country), RouteKeys(bin_region_column))
    ELSE NoneValue

(***************************************************************************)
(* getData(bin_region_column, country, specific_date), lines 118-167.      *)
(* The result is a record: status is "ok" or the exception raised, message *)
(* the exception's text, steps the work done before the call ended, data   *)
(* the returned dictionary and routes the returned route table.            *)
(***************************************************************************)
Raise(exception, message, steps) ==
    [status |-> exception, message |-> message, steps |-> steps,
     data |-> <<>>, routes |-> NoneValue]

\* CopiedData with the recovered table copied at every granularity.
CopiedDataWithRecovered(confirmed, deaths, recovered, bin_region_column) ==
    [t \in {"confirmed", "deaths", "recovered"} |->
        CASE t = "confirmed" -> Fillna(confirmed)
          [] t = "deaths" -> Fillna(deaths)
          [] t = "recovered" -> Fillna(recovered)]

\* The dictionary of lines 120-126: deep copies with missing cells filled.
CopiedData(confirmed, deaths, recovered, bin_region_column) ==
    [t \in {"confirmed", "deaths"}
           \cup (IF bin_region_column = "country" THEN {"recovered"} ELSE {}) |->
        CASE t = "confirmed" -> Fillna(confirmed)
          [] t = "deaths" -> Fillna(deaths)
          [] t = "recovered" -> Fillna(recovered)]

\* FilteredData with the country mask applied to the confirmed table alone.
FilteredConfirmedOnly(data, country) ==
    IF country # None
    THEN [t \in DOMAIN data |->
            IF t = "confirmed"
            THEN Loc(data[t], [i \in 1..Len(data[t].rows) |->
                                 data[t].rows[i]["Country/Region"] = country])
            ELSE data[t]]
    ELSE data

\* Lines 128-130: every table restricted to the rows of the country.
FilteredData(data, country) ==
    IF country # None
    THEN [t \in DOMAIN data |->
            Loc(data[t], [i \in 1..Len(data[t].rows) |->
                            data[t].rows[i]["Country/Region"] = country])]
    ELSE data

\* Line 132: data['confirmed'].columns[5:]
Dates(data) == SubSeq(data["confirmed"].cols, 6, Len(data["confirmed"].cols))

\* agg_dict of lines 136-149 as the sequence of its entries <<column, function>>.
AggDict(selected) ==
    <<<<"Lat", "mean">>, <<"Long", "mean">>>> \o [i \in 1..Len(selected) |-> <<selected[i], "sum">>]

\* new_columns of lines 133, 145, 149.
NewColumns(selected) == <<"Lat", "Long">> \o selected

\* AggCell with 'first' in place of 'sum'.
AggCellFirst(rows, entry) ==
    IF entry[2] = "mean" THEN Mean(rows, entry[1]) ELSE rows[1][entry[1]]

\* One cell of the aggregation: the entry's function over the rows of a group.
AggCell(rows, entry) ==
    IF entry[2] = "mean" THEN Mean(rows, entry[1]) ELSE SumInt(rows, entry[1])

\* df.groupby(keys).agg(agg_dict); .columns = new_columns; .reset_index()
GroupAgg(df, keys, agg_dict, new_columns) ==
    LET ks == SortedKeys({KeyOf(df.rows[i], keys) : i \in 1..Len(df.rows)})
    IN [cols |-> keys \o new_columns,
        rows |-> [j \in 1..Len(ks) |->
                    [c \in Range(keys) \cup Range(new_columns) |->
                       IF c \in Range(keys)
                       THEN LET i == CHOOSE n \in 1..Len(keys) : keys[n] = c IN ks[j][i]
                       ELSE LET i == CHOOSE n \in 1..Len(new_columns) : new_columns[n] = c
                            IN AggCell(GroupRows(df, keys, ks[j]), agg_dict[i])]]]

CaseKeys(bin_region_column) ==
    IF bin_region_column = "state" THEN <<"Province/State", "Country/Region">>
    ELSE <<"Country/Region">>

\* A groupby key or an aggregated column the table does not have: KeyError.
Aggregable(df, keys, agg_dict) ==
    /\ Range(keys) \subseteq Range(df.cols)
    /\ \A i \in 1..Len(agg_dict) : agg_dict[i][1] \in Range(df.cols)

\* The loop of lines 152-165 over the dictionary, county left as it is.
AggregatedData(data, bin_region_column, selected) ==
    IF bin_region_column \in {"state", "country"}
    THEN [t \in DOMAIN data |->
            GroupAgg(data[t], CaseKeys(bin_region_column), AggDict(selected),
                     NewColumns(selected))]
    ELSE data

\* ValidRegion with the assertion gone.
AnyRegion(bin_region_column) == TRUE

\* The assertion of line 118.
ValidRegion(bin_region_column) ==
    (bin_region_column = "county") \/ (bin_region_column = "state")
        \/ (bin_region_column = "country")

\* ValidDate with the assertion gone.
AnyDate(specific_date, dates) == TRUE

\* The assertion of line 143.
ValidDate(specific_date, dates) == specific_date \in Range(dates)

getData(confirmed, deaths, recovered, routes, bin_region_column, country, specific_date) ==
    IF ~ValidRegion(bin_region_column)
    THEN Raise("AssertionError",
               <<"Invalid region parsed to bin_region_column! Needs to be county, state or country">>,
               <<>>)
    ELSE
    LET copied == CopiedData(confirmed, deaths, recovered, bin_region_column)
        data == FilteredData(copied, country)
        steps1 == <<"copy">> \o (IF country # None THEN <<"filter">> ELSE <<>>)
        dates == Dates(data)
    IN  IF specific_date \notin {None, "latest"} /\ ~ValidDate(specific_date, dates)
        THEN Raise("AssertionError",
                   <<specific_date, " is not a valid date. Check the covid .csv files for what a valid dates look like!">>,
                   steps1)
        ELSE IF specific_date = "latest" /\ Len(dates) = 0
        THEN Raise("IndexError", <<"list index out of range">>, steps1)
        ELSE
        LET selected == CASE specific_date = None -> dates
                          [] specific_date = "latest" -> <<dates[Len(dates)]>>
                          [] OTHER -> <<specific_date>>
        IN  IF /\ bin_region_column \in {"state", "country"}
               /\ \E t \in DOMAIN data :
                     ~Aggregable(data[t], CaseKeys(bin_region_column), AggDict(selected))
            THEN Raise("KeyError", <<"groupby">>, steps1 \o <<"groupby">>)
            ELSE
            [status |-> "ok", message |-> <<>>,
             steps |-> steps1
                       \o (IF bin_region_column \in {"state", "country"}
                           THEN <<"groupby">> ELSE <<>>)
                       \o <<"routes">>,
             data |-> AggregatedData(data, bin_region_column, selected),
             routes |-> routesToWeightedEdges(routes, bin_region_column, country)]

(***************************************************************************)
(* The inputs: the tables the dataset manager supplies and the contents    *)
(* of the route CSV, drawn from bounded families.                          *)
(***************************************************************************)
CaseRow(county, state, country, lat, long, d1, d2, d3) ==
    [c \in Range(CaseColumns) |->
       CASE c = "County" -> county
         [] c = "Province/State" -> state
         [] c = "Country/Region" -> country
         [] c = "Lat" -> <<lat, 1>>
         [] c = "Long" -> <<long, 1>>
         [] c = "1/22/20" -> d1
         [] c = "1/23/20" -> d2
         [] c = "1/24/20" -> d3]

SampleCaseRows ==
    << CaseRow("A", "X", "US", 1, 2, 1, 2, 3),
       CaseRow(NaN, "X", "US", 2, 4, 2, 2, 5),
       CaseRow(NaN, NaN, "CA", 4, 1, 3, 4, 4),
       CaseRow("B", "Y", NaN, 3, 3, 0, 1, 1) >>

CaseRowPool == Range(SampleCaseRows)

RouteRow(dc, ds, dk, ac, as, ak) ==
    [c \in Range(RouteColumns) |->
       CASE c = "DepartCounty" -> dc
         [] c = "DepartProvince/State" -> ds
         [] c = "DepartCountry/Region" -> dk
         [] c = "ArrivalCounty" -> ac
         [] c = "ArrivalProvince/State" -> as
         [] c = "ArrivalCountry/Region" -> ak]

SampleRouteRows ==
    << RouteRow("A", "X", "US", "B", "Y", "US"),
       RouteRow(NaN, "X", "US", NaN, "Y", "US"),
       RouteRow("A", "X", "US", NaN, NaN, "CA"),
       RouteRow(NaN, NaN, NaN, NaN, NaN, NaN) >>

RouteRowPool == Range(SampleRouteRows)

SeqsUpTo(S, n) == UNION {[1..k -> S] : k \in 0..n}

Reverse(s) == [i \in 1..Len(s) |-> s[Len(s) + 1 - i]]

\* The deaths and recovered rows of a location: the same place, other counts.
WithCounts(r, k, more) ==
    [c \in DOMAIN r |-> IF c \in Range(DateColumns) THEN (r[c] \div k) + more ELSE r[c]]

\* What getDatasets() returns for the confirmed rows s: 'full' -> confirmed and
\* deaths, and 'covid_recovered'.
DatasetOf(s, v) ==
    [confirmed |-> [cols |-> CaseColumns, rows |-> s],
     deaths |-> [cols |-> CaseColumns,
                 rows |-> LET t == IF v = 1 THEN s ELSE Reverse(s)
                          IN [i \in 1..Len(t) |-> WithCounts(t[i], 2, 0)]],
     recovered |-> [cols |-> CaseColumns,
                    rows |-> LET t == IF v = 1 \/ Len(s) = 0 THEN s ELSE Tail(s)
                             IN [i \in 1..Len(t) |-> WithCounts(t[i], 1, 1)]]]

RouteTableOf(s) == [cols |-> RouteColumns, rows |-> s]

Datasets == {DatasetOf(s, v) : s \in SeqsUpTo(CaseRowPool, MaxRows), v \in {1, 2}}

RouteTables == {RouteTableOf(s) : s \in SeqsUpTo(RouteRowPool, MaxRoutes)}

\* The surroundings of an instance: the tables the dataset manager returns and
\* the contents the route CSV has whenever it exists.
Env(ds, csv) == [datasets |-> ds, csv |-> csv]

\* Every dataset with a sample CSV, and every CSV with a sample dataset.
Envs ==
    {Env(ds, csv) : ds \in Datasets, csv \in {RouteTableOf(SampleRouteRows)}}
    \cup {Env(ds, csv) : ds \in {DatasetOf(SampleCaseRows, 2)}, csv \in RouteTables}

\* The sample datasets with the sample CSV and with a CSV of no rows.
SampleEnvs ==
    {Env(DatasetOf(SampleCaseRows, 2), RouteTableOf(s)) : s \in {SampleRouteRows, <<>>}}

Granularities == {"county", "state", "country", "city"}
Countries == {None, "US", "none", "FR"}
DateSelectors == {None, "latest", "1/23/20", "2020-13-40"}

(***************************************************************************)
(* The state machine.                                                      *)
(***************************************************************************)
NoCall == [op |-> "none", bin_region_column |-> None, country |-> None,
           specific_date |-> None, result |-> Raise("none", <<>>, <<>>)]

Init ==
    /\ env \in SampleEnvs
    /\ pc = "datasets"
    /\ fileExists \in BOOLEAN
    /\ fetchRuns = 0
    /\ log = <<>>
    /\ confirmed_df = Unset
    /\ deaths_df = Unset
    /\ recovered_df = Unset
    /\ routes_df = Unset
    /\ ret = NoCall
    /\ calls = 0

\* Lines 20-27: the tables of the dataset manager become the source tables.
LoadDatasets ==
    /\ pc = "datasets"
    /\ confirmed_df' = env.datasets.confirmed
    /\ deaths_df' = env.datasets.deaths
    /\ recovered_df' = env.datasets.recovered
    /\ pc' = "isfile"
    /\ UNCHANGED <<env, fileExists, fetchRuns, log, routes_df, ret, calls>>

\* AfterIsFile with the fetch run whether or not the file exists.
AlwaysFetch(exists) == "subprocess"

\* Line 29: where construction goes after os.path.isfile(routes_locations).
AfterIsFile(exists) == IF ~exists THEN "subprocess" ELSE "read_csv"

IsFile ==
    /\ pc = "isfile"
    /\ pc' = AfterIsFile(fileExists)
    /\ log' = Append(log, IF fileExists THEN "isfile:True" ELSE "isfile:False")
    /\ UNCHANGED <<env, fileExists, fetchRuns, confirmed_df, deaths_df, recovered_df,
                   routes_df, ret, calls>>

\* Line 30: subprocess.run starts the fetch (python3 is installed) and blocks
\* until it ends; the fetch creates the file or fails to, and its exit status
\* is not looked at.
SubprocessRun ==
    /\ pc = "subprocess"
    /\ \E created \in BOOLEAN : fileExists' = created
    /\ fetchRuns' = fetchRuns + 1
    /\ log' = Append(log, "subprocess.run")
    /\ pc' = "read_csv"
    /\ UNCHANGED <<env, confirmed_df, deaths_df, recovered_df, routes_df, ret, calls>>

\* Line 32: pd.read_csv(routes_locations) of a file that exists.
ReadCsv ==
    /\ pc = "read_csv"
    /\ fileExists
    /\ routes_df' = env.csv
    /\ log' = Append(log, "read_csv")
    /\ pc' = "ready"
    /\ UNCHANGED <<env, fileExists, fetchRuns, confirmed_df, deaths_df, recovered_df, ret, calls>>

\* Line 32: pd.read_csv(routes_locations) of a file that does not exist.
ReadCsvFails ==
    /\ pc = "read_csv"
    /\ ~fileExists
    /\ log' = Append(log, "read_csv")
    /\ pc' = "FileNotFoundError"
    /\ UNCHANGED <<env, fileExists, fetchRuns, confirmed_df, deaths_df, recovered_df,
                   routes_df, ret, calls>>

Counted(n) == IF n < MaxCalls THEN n + 1 ELSE n

\* AfterCopy with the fill done in place on the source table.
FilledInPlace(df) == Fillna(df)

\* A source table after a call took copy(deep=True).fillna("none") of it.
AfterCopy(df) == df

RoutesToWeightedEdges ==
    /\ pc = "ready"
    /\ \E g \in Granularities, c \in Countries :
          ret' = [op |-> "routesToWeightedEdges", bin_region_column |-> g,
                  country |-> c, specific_date |-> None,
                  result |-> [status |-> "ok", message |-> <<>>, steps |-> <<"routes">>,
                              data |-> <<>>,
                              routes |-> routesToWeightedEdges(routes_df, g, c)]]
    /\ routes_df' = AfterCopy(routes_df)
    /\ calls' = Counted(calls)
    /\ UNCHANGED <<env, pc, fileExists, fetchRuns, log, confirmed_df, deaths_df, recovered_df>>

GetData ==
    /\ pc = "ready"
    /\ \E g \in Granularities, c \in Countries, d \in DateSelectors :
          LET r == getData(confirmed_df, deaths_df, recovered_df, routes_df, g, c, d)
          IN /\ ret' = [op |-> "getData", bin_region_column |-> g, country |-> c,
                        specific_date |-> d, result |-> r]
             /\ confirmed_df' = IF "copy" \in Range(r.steps)
                                THEN AfterCopy(confirmed_df) ELSE confirmed_df
             /\ deaths_df' = IF "copy" \in Range(r.steps)
                             THEN AfterCopy(deaths_df) ELSE deaths_df
             /\ recovered_df' = IF "copy" \in Range(r.steps) /\ g = "country"
                                THEN AfterCopy(recovered_df) ELSE recovered_df
             /\ routes_df' = IF "routes" \in Range(r.steps)
                             THEN AfterCopy(routes_df) ELSE routes_df
    /\ calls' = Counted(calls)
    /\ UNCHANGED <<env, pc, fileExists, fetchRuns, log>>

Next ==
    \/ LoadDatasets
    \/ IsFile
    \/ SubprocessRun
    \/ ReadCsv
    \/ ReadCsvFails
    \/ RoutesToWeightedEdges
    \/ GetData

Spec == Init /\ [][Next]_vars

(***************************************************************************)
(* One call on a constructed instance, over the whole families of inputs.  *)
(***************************************************************************)
InitCall ==
    /\ env \in Envs
    /\ pc = "ready"
    /\ fileExists = TRUE
    /\ fetchRuns = 0
    /\ log = <<"isfile:True", "read_csv">>
    /\ confirmed_df = env.datasets.confirmed
    /\ deaths_df = env.datasets.deaths
    /\ recovered_df = env.datasets.recovered
    /\ routes_df = env.csv
    /\ ret = NoCall
    /\ calls = 0

NextCall ==
    \/ ret = NoCall /\ RoutesToWeightedEdges
    \/ ret = NoCall /\ GetData

SpecCall == InitCall /\ [][NextCall]_vars

(***************************************************************************)
(* What the claims speak of, stated from the source tables alone.          *)
(***************************************************************************)
Regions == {"county", "state", "country"}

GotData == ret.op = "getData"
GotRoutes == ret.op = "routesToWeightedEdges"
Ok == ret.result.status = "ok"

\* A cell as the operations read it: a missing value reads "none".
Read(v) == IF v = NaN THEN "none" ELSE v

Source(t) ==
    CASE t = "confirmed" -> confirmed_df
      [] t = "deaths" -> deaths_df
      [] t = "recovered" -> recovered_df

\* The indices of the rows of a case table that belong to the country filter.
CaseIdx(df, c) ==
    {i \in 1..Len(df.rows) : c = None \/ Read(df.rows[i]["Country/Region"]) = c}

\* The indices of the route rows that pass the country filter.
RouteIdx(df, c) ==
    {i \in 1..Len(df.rows) :
        c = None \/ (/\ Read(df.rows[i]["DepartCountry/Region"]) = c
                     /\ Read(df.rows[i]["ArrivalCountry/Region"]) = c)}

RECURSIVE Total(_, _)
Total(S, f) ==
    IF S = {} THEN 0
    ELSE LET x == CHOOSE y \in S : TRUE IN f[x] + Total(S \ {x}, f)

\* The date columns of a table, in column order.
DatesOf(df) == SelectSeq(df.cols, LAMBDA c : c \in Range(DateColumns))

\* C1: for every granularity and country filter the NumberOfRoutes of the table
\* routesToWeightedEdges returns add up to the number of route rows passing the
\* filter, and every such row is counted in the output row of its own key with
\* missing fields read as "none".
C1_RouteCountConserved ==
    (GotRoutes /\ ret.bin_region_column \in Regions) =>
        LET out == ret.result.routes
            keys == RouteKeys(ret.bin_region_column)
            pass == RouteIdx(routes_df, ret.country)
        IN /\ Total(1..Len(out.rows), [j \in 1..Len(out.rows) |-> out.rows[j]["NumberOfRoutes"]])
                = Cardinality(pass)
           /\ \A i \in pass :
                 \E j \in 1..Len(out.rows) :
                    \A n \in 1..Len(keys) :
                       out.rows[j][keys[n]] = Read(routes_df.rows[i][keys[n]])
           /\ \A j \in 1..Len(out.rows) :
                 out.rows[j]["NumberOfRoutes"]
                    = Cardinality({i \in pass : \A n \in 1..Len(keys) :
                                      out.rows[j][keys[n]] = Read(routes_df.rows[i][keys[n]])})

\* A filtered call over rows with missing fields in which several routes fall
\* into one group and one route fails the filter.
C1_Witness ==
    /\ GotRoutes /\ ret.bin_region_column = "state" /\ ret.country = "US"
    /\ Cardinality(RouteIdx(routes_df, "US")) = 2
    /\ Len(routes_df.rows) = 3
    /\ Len(ret.result.routes.rows) = 1
    /\ \E i \in RouteIdx(routes_df, "US") : routes_df.rows[i]["DepartCounty"] = NaN

\* The rows of a source table restricted to the country, cells as stored.
Restricted(df, c) ==
    [cols |-> df.cols,
     rows |-> SelectSeq(df.rows, LAMBDA r : c = None \/ r["Country/Region"] = c)]

\* The same with every missing location cell reading "none".
RestrictedRead(df, c) ==
    [cols |-> df.cols,
     rows |-> SelectSeq([i \in 1..Len(df.rows) |->
                           [col \in DOMAIN df.rows[i] |->
                              IF col \in LocationColumns THEN Read(df.rows[i][col])
                              ELSE df.rows[i][col]]],
                        LAMBDA r : c = None \/ r["Country/Region"] = c)]

C3_InvalidRegionFailsFast ==
    (GotData /\ ret.bin_region_column \notin Regions) =>
        /\ ret.result.status = "AssertionError"
        /\ ret.result.steps = <<>>
        /\ ret.result.data = <<>>
        /\ ret.result.routes = NoneValue

C3_Witness ==
    /\ GotData /\ ret.bin_region_column = "city"
    /\ ret.country = "US" /\ ret.specific_date = "latest"
    /\ Len(confirmed_df.rows) > 0

\* C4: getData with a valid granularity and a specific date that is neither
\* absent, nor 'latest', nor a date column of the confirmed table fails with an
\* assertion error naming the date, at every granularity and country filter,
\* with no table aggregated and nothing returned.
C4_UnknownDateFails ==
    (/\ GotData /\ ret.bin_region_column \in Regions
     /\ ret.specific_date \notin {None, "latest"} \cup Range(DatesOf(confirmed_df))) =>
        /\ ret.result.status = "AssertionError"
        /\ ret.result.message[1] = ret.specific_date
        /\ "groupby" \notin Range(ret.result.steps)
        /\ "routes" \notin Range(ret.result.steps)
        /\ ret.result.data = <<>>
        /\ ret.result.routes = NoneValue

C4_Witness ==
    /\ GotData /\ ret.bin_region_column = "county" /\ ret.country = None
    /\ ret.specific_date = "2020-13-40"
    /\ Len(confirmed_df.rows) > 0

\* C5: a successful getData returns the keys 'confirmed' and 'deaths', the key
\* 'recovered' exactly at 'country' granularity, and no other key; at 'county'
\* and 'state' the call succeeds without recovery data.
C5_RecoveredOnlyAtCountry ==
    (GotData /\ Ok) =>
        DOMAIN ret.result.data
            = {"confirmed", "deaths"}
              \cup (IF ret.bin_region_column = "country" THEN {"recovered"} ELSE {})

C5_Witness ==
    /\ GotData /\ Ok /\ ret.bin_region_column = "state"
    /\ "recovered" \notin DOMAIN ret.result.data
    /\ Len(recovered_df.rows) > 0

\* The location key of a case row at a granularity, missing fields as "none".
CaseKey(r, g) ==
    IF g = "state" THEN <<Read(r["Province/State"]), Read(r["Country/Region"])>>
    ELSE <<Read(r["Country/Region"])>>

OutKey(r, g) ==
    IF g = "state" THEN <<r["Province/State"], r["Country/Region"]>>
    ELSE <<r["Country/Region"]>>

\* C6: at 'state' and 'country' every returned table has exactly one row per
\* distinct key among the country-filtered input rows (missing key fields under
\* "none"), each date column of that row is the sum of the column over the input
\* rows of the key, and the output has at most as many rows as the input.
C6_OneRowPerKeyWithSums ==
    (GotData /\ Ok /\ ret.bin_region_column \in {"state", "country"}) =>
        \A t \in DOMAIN ret.result.data :
            LET out == ret.result.data[t]
                src == Source(t)
                g == ret.bin_region_column
                idx == CaseIdx(src, ret.country)
                inKeys == {CaseKey(src.rows[i], g) : i \in idx}
            IN /\ {OutKey(out.rows[j], g) : j \in 1..Len(out.rows)} = inKeys
               /\ Len(out.rows) = Cardinality(inKeys)
               /\ Len(out.rows) <= Cardinality(idx)
               /\ DatesOf(out) # <<>>
               /\ \A j \in 1..Len(out.rows) : \A c \in Range(DatesOf(out)) :
                     LET members == {i \in idx : CaseKey(src.rows[i], g) = OutKey(out.rows[j], g)}
                     IN out.rows[j][c] = Total(members, [i \in members |-> src.rows[i][c]])

\* A state call in which two rows, one with a missing county, share a key and a
\* third row has another key.
C6_Witness ==
    /\ GotData /\ Ok /\ ret.bin_region_column = "state" /\ ret.country = None
    /\ Len(confirmed_df.rows) = 3
    /\ Len(ret.result.data["confirmed"].rows) = 2
    /\ \E j \in 1..2 : ret.result.data["confirmed"].rows[j]["Province/State"] = "none"

\* The date columns the date selector asks for.
Selected(d) ==
    CASE d = None -> DatesOf(confirmed_df)
      [] d = "latest" -> <<DatesOf(confirmed_df)[Len(DatesOf(confirmed_df))]>>
      [] OTHER -> <<d>>

\* C7: with a specific date every returned case table holds that date column
\* only, with 'latest' only the last date column, with no selector every date
\* column; at every granularity, 'county' included.
C7_SelectedDatesOnly ==
    (GotData /\ Ok) =>
        \A t \in DOMAIN ret.result.data :
            DatesOf(ret.result.data[t]) = Selected(ret.specific_date)

\* C7 holds of the grouped granularities.
C7_GroupedSelection ==
    (GotData /\ Ok /\ ret.bin_region_column \in {"state", "country"}) =>
        \A t \in DOMAIN ret.result.data :
            DatesOf(ret.result.data[t]) = Selected(ret.specific_date)

\* C8: aggregating the tables getData produced at 'country' (or at 'state')
\* again at the same granularity yields the same tables.
C8_Idempotent ==
    (GotData /\ Ok /\ ret.bin_region_column \in {"state", "country"}) =>
        LET first == ret.result.data
            again == getData(first["confirmed"], first["deaths"],
                             IF "recovered" \in DOMAIN first
                             THEN first["recovered"] ELSE recovered_df,
                             routes_df, ret.bin_region_column, ret.country,
                             ret.specific_date)
        IN again.status = "ok" /\ again.data = first

\* The order of the steps of a construction.
Prefix(s, t) == Len(s) <= Len(t) /\ s = SubSeq(t, 1, Len(s))

\* C9: construction runs the fetch at most once, exactly when the file was
\* absent at the check; the CSV is read after the fetch has ended; with the file
\* present no fetch starts; a fetch that leaves no file is not retried and
\* construction ends in the file-read error, never in an instance.
C9_FetchOnceThenRead ==
    /\ fetchRuns <= 1
    /\ \/ Prefix(log, <<"isfile:True", "read_csv">>)
       \/ Prefix(log, <<"isfile:False", "subprocess.run", "read_csv">>)
    /\ (fetchRuns = 1) <=> ("subprocess.run" \in Range(log))
    /\ pc \in {"read_csv", "ready", "FileNotFoundError"} =>
          ((fetchRuns = 1) <=> (log[1] = "isfile:False"))
    /\ pc = "ready" => (fileExists /\ "read_csv" \in Range(log) /\ routes_df = env.csv)
    /\ pc = "FileNotFoundError" =>
          /\ log = <<"isfile:False", "subprocess.run", "read_csv">>
          /\ ~fileExists
          /\ routes_df = Unset
    /\ ("read_csv" \in Range(log) /\ ~fileExists) => pc = "FileNotFoundError"

\* The fetch ran, left no file, and construction ended in the read error.
C9_Witness ==
    /\ pc = "FileNotFoundError"
    /\ fetchRuns = 1
    /\ ~fileExists

\* C10: after any sequence of calls the four source tables are what
\* construction made them, every result is the result of its arguments on those
\* tables, and the route table of getData(g, c, d) is routesToWeightedEdges(g, c).
C10_SourcesUnchanged ==
    pc = "ready" =>
        /\ confirmed_df = env.datasets.confirmed
        /\ deaths_df = env.datasets.deaths
        /\ recovered_df = env.datasets.recovered
        /\ routes_df = env.csv
        /\ GotData =>
              ret.result = getData(env.datasets.confirmed, env.datasets.deaths,
                                   env.datasets.recovered, env.csv,
                                   ret.bin_region_column, ret.country, ret.specific_date)
        /\ (GotData /\ Ok) =>
              ret.result.routes
                 = routesToWeightedEdges(env.csv, ret.bin_region_column, ret.country)
        /\ GotRoutes =>
              ret.result.routes
                 = routesToWeightedEdges(env.csv, ret.bin_region_column, ret.country)

\* Several calls were made, the last a successful grouping over tables with
\* missing cells.
C10_Witness ==
    /\ pc = "ready" /\ calls = MaxCalls
    /\ GotData /\ Ok /\ ret.bin_region_column = "country"
    /\ \E i \in 1..Len(confirmed_df.rows) : confirmed_df.rows[i]["County"] = NaN
    /\ Len(ret.result.routes.rows) > 0

====
